---- MODULE Spec2Model ----
(***************************************************************************)
(* The Portkey gateway adapter of langchain/llms/portkey.py as a state     *)
(* machine: adapter objects (mode, model, streaming, llms), the module     *)
(* level attributes of the imported portkey package (api_key, base_url,    *)
(* mode, config), the one live generator returned by _stream, and the      *)
(* outcome of the last operation as its caller observes it.                *)
(***************************************************************************)
EXTENDS Integers, Sequences, FiniteSets, TLC

\* ---------------------------------------------------------------- bounds
MaxLlms == 2       \* longest llms list an adapter is grown to
MaxArgLen == 2     \* longest list passed to one add_llms call
MaxChoices == 2    \* most choices in one non-streamed gateway response
MaxTokens == 2     \* most tokens in one streamed gateway response

\* ---------------------------------------------------------------- values
\* Python's None. The strings drawn below never equal it.
None == "None"

\* The two backquotes of the source string are written as apostrophes here.
IMPORT_ERROR_MESSAGE ==
    "Portkey is not installed.Please install it with 'pip install portkey-ai'."

Adapters == {"A", "B"}
Modes == {"single", "fallback"}
ApiKeys == {None, "key"}
BaseUrls == {None, "url"}

\* LLMOptions objects; only .model is read by the adapter.
LLMOptions ==
    { [provider |-> "openai", model |-> "m1"],
      [provider |-> "anthropic", model |-> "m2"] }

RECURSIVE SeqsUpTo(_, _)
SeqsUpTo(S, n) ==
    IF n = 0 THEN {<<>>}
    ELSE LET shorter == SeqsUpTo(S, n - 1)
         IN  shorter \cup { Append(s, x) : s \in {t \in shorter : Len(t) = n - 1}, x \in S }

LLMOptionsLists == SeqsUpTo(LLMOptions, MaxArgLen)

\* Optional[List[str]]: None, or a list of stop words.
StopNone == [isNone |-> TRUE, words |-> <<>>]
Stops == {StopNone, [isNone |-> FALSE, words |-> <<"\n">>]}
Prompts == {"p1", "p2"}
\* **kwargs, by the keyword names it carries.
Kwargs == {{}, {"temperature"}, {"stream"}}

\* The text of a choice: Optional[str].
Texts == {None, "", "a"}
ChoiceLists == SeqsUpTo(Texts, MaxChoices)
\* The choices of one streamed token: none, one or two.
Tokens == { <<>>, <<None>>, <<"">>, <<"a">>, <<"b", "a">>, <<None, "a">> }
\* What Completions.create does: raise, or return a response.
\* A non-streamed response is its list of choices; a streamed one is a list
\* of tokens, each with its own list of choices.
GatewayError == [error |-> "GatewayError", choices |-> <<>>, tokens |-> <<>>]
Response(choices) == [error |-> None, choices |-> choices, tokens |-> <<>>]
StreamResponse(tokens) == [error |-> None, choices |-> <<>>, tokens |-> tokens]

\* ----------------------------------------------------------------- state
VARIABLES
    importable,   \* whether `import portkey` succeeds right now
    alive,        \* alive[a]: adapter a has been constructed
    mode,         \* a.mode
    model,        \* a.model
    streaming,    \* a.streaming
    llms,         \* a.llms
    portkey,      \* the portkey module's attributes (shared by all adapters)
    gen,          \* the generator object returned by the latest _stream call
    last          \* the latest operation as seen by its caller

vars == <<importable, alive, mode, model, streaming, llms, portkey, gen, last>>

\* Class-level field defaults, applied by super().__init__().
FieldDefaults ==
    [mode |-> None, model |-> "gpt-3.5-turbo", streaming |-> FALSE, llms |-> <<>>]

Config(l) == [llms |-> l]

NoArgs == [none |-> TRUE]
NoGen ==
    [pc |-> "none", self |-> None, prompt |-> None, stop |-> StopNone,
     kwargs |-> {}, run_manager |-> FALSE, response |-> <<>>, idx |-> 0,
     yielded |-> <<>>, callbacks |-> <<>>, llmsAtCall |-> 0]

\* What the caller of an operation sees: the value returned or the error
\* raised, and the Completions.create invocation made on the way (if any).
Observed(op, self, args, error, message, ret, request, response) ==
    [op |-> op, self |-> self, args |-> args, error |-> error,
     message |-> message, ret |-> ret, request |-> request,
     response |-> response]

Returned(op, self, args, ret, request, response) ==
    Observed(op, self, args, None, None, ret, request, response)

Raised(op, self, args, error, message, request, response) ==
    Observed(op, self, args, error, message, None, request, response)

\* The import error left as the interpreter raised it, not re-raised with the
\* adapter's message.
ImportFailedBare(op, self, args) ==
    Raised(op, self, args, "ImportError", "No module named 'portkey'", <<>>, <<>>)

ImportFailed(op, self, args) ==
    Raised(op, self, args, "ImportError", IMPORT_ERROR_MESSAGE, <<>>, <<>>)

Init ==
    /\ importable = TRUE
    /\ alive = [a \in Adapters |-> FALSE]
    /\ mode = [a \in Adapters |-> None]
    /\ model = [a \in Adapters |-> None]
    /\ streaming = [a \in Adapters |-> FALSE]
    /\ llms = [a \in Adapters |-> <<>>]
    /\ portkey = [api_key |-> None, base_url |-> None, mode |-> None, config |-> <<>>]
    /\ gen = NoGen
    /\ last = Returned("none", None, NoArgs, None, <<>>, <<>>)

\* ------------------------------------------------------------ environment
\* Whether the import statements of the adapter succeed changes: the portkey
\* package is installed, removed, shadowed, or lacks a name imported from it.
SetImportable(b) ==
    /\ importable # b
    /\ importable' = b
    /\ last' = Returned("environment", None, NoArgs, None, <<>>, <<>>)
    /\ UNCHANGED <<alive, mode, model, streaming, llms, portkey, gen>>

\* Assignment to the public field `streaming`.
SetStreaming(self, b) ==
    /\ alive[self]
    /\ streaming[self] # b
    /\ streaming' = [streaming EXCEPT ![self] = b]
    /\ last' = Returned("setattr", self, NoArgs, None, <<>>, <<>>)
    /\ UNCHANGED <<importable, alive, mode, model, llms, portkey, gen>>

\* ------------------------------------------------------------ __init__
\* The module attributes after the constructor's assignments.
InitPortkey(pk, m, api_key, base_url) ==
    [pk EXCEPT !.api_key = IF api_key # None THEN api_key ELSE @,
               !.base_url = IF base_url # None THEN base_url ELSE @,
               !.mode = m]

\* The value the constructor leaves in self.model.
InitModel == None

Construct(self, m, api_key, base_url) ==
    LET args == [mode |-> m, api_key |-> api_key, base_url |-> base_url]
    IN
    /\ ~alive[self]
    /\ IF ~importable
       THEN /\ last' = ImportFailed("__init__", self, args)
            /\ UNCHANGED <<alive, mode, model, streaming, llms, portkey>>
       ELSE /\ alive' = [alive EXCEPT ![self] = TRUE]
            /\ streaming' = [streaming EXCEPT ![self] = FieldDefaults.streaming]
            /\ llms' = [llms EXCEPT ![self] = FieldDefaults.llms]
            /\ portkey' = InitPortkey(portkey, m, api_key, base_url)
            /\ model' = [model EXCEPT ![self] = InitModel]
            /\ mode' = [mode EXCEPT ![self] = m]
            /\ last' = Returned("__init__", self, args, self, <<>>, <<>>)
    /\ UNCHANGED <<importable, gen>>

\* ------------------------------------------------------------ add_llms
\* `if isinstance(llm_params, LLMOptions): llm_params = [llm_params]`
AsList(llm_params, isLLMOptions) ==
    IF isLLMOptions THEN <<llm_params>> ELSE llm_params

\* `self.llms.extend(llm_params)`
Extend(old, params) == old \o params

\* The model taken from the end of the list (index -1) instead of its head.
FirstModelLatest(oldModel, l) ==
    IF oldModel = None THEN l[Len(l)].model ELSE oldModel

\* `if self.model is None: self.model = self.llms[0].model`, given that
\* self.llms is not empty.
FirstModel(oldModel, l) == IF oldModel = None THEN l[1].model ELSE oldModel

add_llms(self, llm_params, isLLMOptions) ==
    LET params == AsList(llm_params, isLLMOptions)
        args == [llm_params |-> params, isLLMOptions |-> isLLMOptions,
                 before |-> llms[self]]
        extended == Extend(llms[self], params)
    IN
    /\ alive[self]
    /\ Len(llms[self]) + Len(params) <= MaxLlms
    /\ IF ~importable
       THEN /\ last' = ImportFailed("add_llms", self, args)
            /\ UNCHANGED <<llms, model>>
       ELSE /\ llms' = [llms EXCEPT ![self] = extended]
            /\ IF model[self] = None /\ extended = <<>>
               THEN \* self.llms[0] on an empty list
                    /\ last' = Raised("add_llms", self, args, "IndexError",
                                      "list index out of range", <<>>, <<>>)
                    /\ UNCHANGED model
               ELSE /\ model' = [model EXCEPT ![self] = FirstModel(@, extended)]
                    /\ last' = Returned("add_llms", self, args, self, <<>>, <<>>)
    /\ UNCHANGED <<importable, alive, mode, streaming, portkey, gen>>

AddOne(self) == \E o \in LLMOptions : add_llms(self, o, TRUE)

AddList(self) == \E l \in LLMOptionsLists : add_llms(self, l, FALSE)

\* ------------------------------------------------------------ _client
\* The property `_client`, once its import has succeeded: it stores a fresh
\* Config over self.llms in the module and returns the module.
client(pk, self) == [pk EXCEPT !.config = <<Config(llms[self])>>]

\* `self._client.config = Config(llms=self.llms)` of _call.
SetConfig(pk, self) == [pk EXCEPT !.config = <<Config(llms[self])>>]

\* The invocation of Completions.create as the gateway client receives it:
\* its keyword arguments, and the module attributes it reads at that moment.
create(pk, self, stream, prompt, stop, kwargs) ==
    [self |-> self, stream |-> stream, prompt |-> prompt, stop |-> stop,
     kwargs |-> kwargs, mode |-> pk.mode, config |-> pk.config,
     api_key |-> pk.api_key, base_url |-> pk.base_url]

\* `stream=...` is given explicitly next to **kwargs: a kwargs that carries
\* the same keyword makes the call expression raise TypeError.
DuplicateKeyword(kwargs) == "stream" \in kwargs

\* The text passed on as it is, None included.
TextKept(text) == text

\* `text or ""`
TextOrEmpty(text) == IF text = None \/ text = "" THEN "" ELSE text

\* The text of the last choice (index -1) instead of the first.
LastChoiceText(choices) == choices[Len(choices)]

\* `response.choices[0].text`, given at least one choice.
FirstChoiceText(choices) == choices[1]

\* The value _call returns for a response with at least one choice.
CallResult(choices) == TextOrEmpty(FirstChoiceText(choices))

\* The adapter's `streaming` field used as the stream argument.
StreamingField(self) == streaming[self]

\* The `stream` argument _call and _stream pass to Completions.create.
CallStreamFlag(self) == FALSE

StreamStreamFlag(self) == TRUE

\* ------------------------------------------------------------ _call
_call(self, prompt, stop, kwargs, gw) ==
    LET args == [prompt |-> prompt, stop |-> stop, kwargs |-> kwargs]
        pk == client(SetConfig(client(portkey, self), self), self)
        request == create(pk, self, CallStreamFlag(self), prompt, stop, kwargs)
    IN
    /\ alive[self]
    /\ IF ~importable
       THEN /\ last' = ImportFailed("_call", self, args)
            /\ UNCHANGED portkey
       ELSE /\ portkey' = pk
            /\ last' =
                 IF DuplicateKeyword(kwargs)
                 THEN Raised("_call", self, args, "TypeError",
                             "got multiple values for keyword argument",
                             <<>>, <<>>)
                 ELSE IF gw.error # None
                 THEN Raised("_call", self, args, gw.error, None,
                             <<request>>, <<>>)
                 ELSE IF gw.choices = <<>>
                 THEN Raised("_call", self, args, "IndexError",
                             "list index out of range", <<request>>, <<gw>>)
                 ELSE Returned("_call", self, args, CallResult(gw.choices),
                               <<request>>, <<gw>>)
    /\ UNCHANGED <<importable, alive, mode, model, streaming, llms, gen>>

\* ------------------------------------------------------------ _stream
\* Calling a generator function runs none of its body.
_stream(self, prompt, stop, kwargs, run_manager) ==
    LET args == [prompt |-> prompt, stop |-> stop, kwargs |-> kwargs]
    IN
    /\ alive[self]
    /\ gen' = [NoGen EXCEPT !.pc = "created", !.self = self, !.prompt = prompt,
                            !.stop = stop, !.kwargs = kwargs,
                            !.run_manager = run_manager,
                            !.llmsAtCall = Len(llms[self])]
    /\ last' = Returned("_stream", self, args, "generator", <<>>, <<>>)
    /\ UNCHANGED <<importable, alive, mode, model, streaming, llms, portkey>>

\* `GenerationChunk(text = token.choices[0].text or "")`
ChunkText(token) == TextOrEmpty(FirstChoiceText(token))

\* The position in the response of the token the loop takes next.
NextToken(g) == g.idx + 1

\* One turn of `for token in response:` up to its `yield`, or the end of the
\* generator: (generator', observation).
Advance(g, request, response) ==
    IF g.idx >= Len(g.response)
    THEN <<[g EXCEPT !.pc = "done"],
           Raised("next", g.self, NoArgs, "StopIteration", None, request,
                  response)>>
    ELSE LET token == g.response[NextToken(g)]
         IN  IF token = <<>>
             THEN <<[g EXCEPT !.pc = "closed"],
                    Raised("next", g.self, NoArgs, "IndexError",
                           "list index out of range", request, response)>>
             ELSE <<[g EXCEPT !.pc = "suspended", !.idx = NextToken(g),
                              !.yielded = Append(@, ChunkText(token))],
                    Returned("next", g.self, NoArgs, ChunkText(token),
                             request, response)>>

\* The code after `yield chunk`, run when the generator is resumed.
AfterYield(g) ==
    IF g.run_manager
    THEN [g EXCEPT !.callbacks = Append(@, g.yielded[Len(g.yielded)])]
    ELSE g

\* next(generator) on a generator that has not started: the body runs from
\* its first line to the first yield.
StartGen(gw) ==
    LET pk == client(portkey, gen.self)
        request == create(pk, gen.self, StreamStreamFlag(gen.self), gen.prompt,
                          gen.stop, gen.kwargs)
        started == Advance([gen EXCEPT !.response = gw.tokens], <<request>>, <<gw>>)
    IN
    /\ gen.pc = "created"
    /\ IF ~importable
       THEN /\ gen' = [gen EXCEPT !.pc = "closed"]
            /\ last' = ImportFailed("next", gen.self, NoArgs)
            /\ UNCHANGED portkey
       ELSE /\ portkey' = pk
            /\ IF DuplicateKeyword(gen.kwargs)
               THEN /\ gen' = [gen EXCEPT !.pc = "closed"]
                    /\ last' = Raised("next", gen.self, NoArgs, "TypeError",
                                      "got multiple values for keyword argument",
                                      <<>>, <<>>)
               ELSE IF gw.error # None
               THEN /\ gen' = [gen EXCEPT !.pc = "closed"]
                    /\ last' = Raised("next", gen.self, NoArgs, gw.error, None,
                                      <<request>>, <<>>)
               ELSE /\ gen' = started[1]
                    /\ last' = started[2]
    /\ UNCHANGED <<importable, alive, mode, model, streaming, llms>>

\* next(generator) on a generator suspended at its yield.
ResumeGen ==
    LET resumed == Advance(AfterYield(gen), <<>>, <<>>)
    IN
    /\ gen.pc = "suspended"
    /\ gen' = resumed[1]
    /\ last' = resumed[2]
    /\ UNCHANGED <<importable, alive, mode, model, streaming, llms, portkey>>

\* ------------------------------------------------------------ specifications
\* Construction and add_llms only, on an importable package.
NextAdd ==
    \/ \E self \in Adapters, m \in Modes : Construct(self, m, None, None)
    \/ \E self \in Adapters : AddOne(self)
    \/ \E self \in Adapters : AddList(self)

SpecAdd == Init /\ [][NextAdd]_vars

\* The arguments of _call and _stream that are tried together.
CallInputs ==
    { [prompt |-> "p1", stop |-> StopNone, kwargs |-> {}],
      [prompt |-> "p2", stop |-> [isNone |-> FALSE, words |-> <<"\n">>],
       kwargs |-> {"temperature"}],
      [prompt |-> "p1", stop |-> StopNone, kwargs |-> {"stream"}] }

FewCallOutcomes == {GatewayError, Response(<<"a">>)}
FewStreamOutcomes == {GatewayError, StreamResponse(<<<<"a">>>>)}

\* Every operation of one adapter, with the package coming and going and
\* few gateway responses.
Next ==
    \/ \E m \in Modes, k \in ApiKeys, u \in BaseUrls : Construct("A", m, k, u)
    \/ AddOne("A")
    \/ AddList("A")
    \/ \E i \in CallInputs, gw \in FewCallOutcomes :
          _call("A", i.prompt, i.stop, i.kwargs, gw)
    \/ \E i \in CallInputs : _stream("A", i.prompt, i.stop, i.kwargs, FALSE)
    \/ \E gw \in FewStreamOutcomes : StartGen(gw)
    \/ ResumeGen
    \/ \E b \in BOOLEAN : SetImportable(b)
    \/ \E b \in BOOLEAN : SetStreaming("A", b)

Spec == Init /\ [][Next]_vars

\* Two adapters constructed in any order with any modes, and requests issued
\* through either.
NextModes ==
    \/ \E self \in Adapters, m \in Modes : Construct(self, m, None, None)
    \/ \E self \in Adapters : AddOne(self)
    \/ \E self \in Adapters, gw \in FewCallOutcomes :
          _call(self, "p1", StopNone, {}, gw)
    \/ \E self \in Adapters : _stream(self, "p1", StopNone, {}, FALSE)
    \/ \E gw \in FewStreamOutcomes : StartGen(gw)
    \/ ResumeGen

SpecModes == Init /\ [][NextModes]_vars

\* Every gateway response within the bounds, to one adapter.
CallOutcomes == {GatewayError} \cup { Response(c) : c \in ChoiceLists }
StreamOutcomes ==
    {GatewayError} \cup { StreamResponse(t) : t \in SeqsUpTo(Tokens, MaxTokens) }

NextResponse ==
    \/ Construct("A", "single", None, None)
    \/ \E gw \in CallOutcomes : _call("A", "p1", StopNone, {}, gw)
    \/ \E rm \in BOOLEAN : _stream("A", "p1", StopNone, {}, rm)
    \/ \E gw \in StreamOutcomes : StartGen(gw)
    \/ ResumeGen

SpecResponse == Init /\ [][NextResponse]_vars

\* ----------------------------------------------------------------- claims
Operations == {"__init__", "add_llms", "_call", "_stream", "next"}

\* C1: every add_llms call, with one LLMOptions or a list of them, leaves
\* llms equal to what it was followed by the argument's elements in order,
\* raises nothing and returns the adapter it was called on.
C1_AddLlmsAppendsAndReturnsSelf ==
    last.op = "add_llms" =>
        /\ llms[last.self] = last.args.before \o last.args.llm_params
        /\ last.error = None
        /\ last.ret = last.self

\* C6: add_llms called with a list, the empty list included, on any adapter
\* state raises no error and returns the adapter.
C6_AddListNeverRaises ==
    (last.op = "add_llms" /\ ~last.args.isLLMOptions) =>
        (last.error = None /\ last.ret = last.self)

\* C8: in every state llms empty implies model is None, llms non-empty
\* implies model is the model of llms[0]; the head of llms never changes and
\* once model is not None no step changes it.
C8_ModelOfHead ==
    \A a \in Adapters : alive[a] =>
        /\ llms[a] = <<>> => model[a] = None
        /\ llms[a] # <<>> => model[a] = llms[a][1].model

C8_ModelFrozen ==
    \A a \in Adapters :
        /\ (alive[a] /\ model[a] # None) => model'[a] = model[a]
        /\ (alive[a] /\ llms[a] # <<>>) =>
              (llms'[a] # <<>> /\ llms'[a][1] = llms[a][1])

C8_ModelTracksFirstLlm == [] C8_ModelOfHead /\ [][C8_ModelFrozen]_vars

\* C8's case: two LLMOptions with different models were added, and model is
\* that of the first.
C8_Witness ==
    /\ last.op = "add_llms"
    /\ Len(llms["A"]) >= 2
    /\ llms["A"][1].model # llms["A"][2].model
    /\ model["A"] = llms["A"][1].model

C3_ChunksSoFar ==
    (gen.pc \in {"suspended", "done"}) =>
        /\ Len(gen.yielded) = gen.idx
        /\ gen.idx <= Len(gen.response)
        /\ \A i \in 1..gen.idx :
              /\ gen.response[i] # <<>>
              /\ gen.yielded[i] # None
              /\ gen.yielded[i] =
                    (IF gen.response[i][1] \in {None, ""} THEN ""
                     ELSE gen.response[i][1])
        /\ gen.pc = "done" => gen.idx = Len(gen.response)

C3_EndsWhenExhausted ==
    (/\ gen.pc = "suspended"
     /\ gen.idx = Len(gen.response)
     /\ last'.op = "next") =>
        (gen'.pc = "done" /\ last'.error = "StopIteration"
                          /\ gen'.yielded = gen.yielded)

C3_StreamYieldsEveryToken == [] C3_ChunksSoFar /\ [][C3_EndsWhenExhausted]_vars

\* C3's case: a response of two tokens consumed to exhaustion, the first
\* token without text.
C3_Witness ==
    /\ gen.pc = "done"
    /\ gen.response = << <<None, "a">>, <<"b", "a">> >>
    /\ gen.yielded = <<"", "b">>

\* C4: while the package is not importable the constructor, add_llms, _call
\* and the first next() of a _stream generator raise ImportError with
\* IMPORT_ERROR_MESSAGE, touch no adapter or module state and issue no
\* request; an importable package never gives that error, and an error
\* raised by Completions.create reaches the caller as it is.
C4_ImportErrorShape ==
    /\ last.error = "ImportError" =>
          (last.message = IMPORT_ERROR_MESSAGE /\ last.request = <<>>)
    /\ (last.op \in {"_call", "next"} /\ last.request # <<>>
            /\ last.response = <<>>) =>
          (last.error = "GatewayError" /\ last.message = None)

C4_FailsBeforeTouchingState ==
    /\ (~importable /\ (last'.op \in {"__init__", "add_llms", "_call"}
                        \/ (last'.op = "next" /\ gen.pc = "created"))) =>
          /\ last'.error = "ImportError"
          /\ UNCHANGED <<alive, mode, model, streaming, llms, portkey>>
    /\ (importable /\ last'.op \in Operations) => last'.error # "ImportError"

C4_ImportErrorOnly == [] C4_ImportErrorShape /\ [][C4_FailsBeforeTouchingState]_vars

\* C4's case: the package vanished after the adapter was built and given an
\* LLM; _call failed and no Config ever reached the module.
C4_Witness ==
    /\ last.op = "_call"
    /\ last.error = "ImportError"
    /\ last.message = IMPORT_ERROR_MESSAGE
    /\ llms["A"] # <<>>
    /\ portkey.config = <<>>

\* C5: the mode the gateway client holds when Completions.create is invoked
\* for a request of adapter A is the mode passed to A's constructor.
C5_RequestUsesAdaptersMode ==
    last.request # <<>> => last.request[1].mode = mode[last.request[1].self]

\* C7: a request of _call carries stream=False and one of _stream carries
\* stream=True whatever the streaming field; prompt, stop and kwargs arrive
\* as given; the config the client holds at that moment is the adapter's
\* llms list of that moment; the call to _stream itself issues no request
\* and leaves the module alone.
C7_RequestShape ==
    /\ (last.op = "_call" /\ last.request # <<>>) =>
          LET r == last.request[1]
          IN  /\ r.self = last.self
              /\ r.stream = FALSE
              /\ r.prompt = last.args.prompt
              /\ r.stop = last.args.stop
              /\ r.kwargs = last.args.kwargs
              /\ r.config = <<[llms |-> llms[last.self]]>>
    /\ (last.op = "next" /\ last.request # <<>>) =>
          LET r == last.request[1]
          IN  /\ r.self = gen.self
              /\ r.stream = TRUE
              /\ r.prompt = gen.prompt
              /\ r.stop = gen.stop
              /\ r.kwargs = gen.kwargs
              /\ r.config = <<[llms |-> llms[gen.self]]>>
    /\ last.op = "_stream" => (last.request = <<>> /\ gen.pc = "created")

C7_StreamCallIsLazy ==
    /\ last'.op = "_stream" => portkey' = portkey
    /\ (last'.op = "next" /\ gen.pc = "suspended") =>
          (last'.request = <<>> /\ portkey' = portkey)

C7_RequestComposition == [] C7_RequestShape /\ [][C7_StreamCallIsLazy]_vars

\* C7's case: an LLM was added between the call to _stream and the first
\* next(); the request carries it, with stream=True although the streaming
\* field is False.
C7_Witness ==
    /\ last.op = "next"
    /\ last.request # <<>>
    /\ Len(last.request[1].config[1].llms) > gen.llmsAtCall
    /\ last.request[1].stream = TRUE
    /\ ~streaming[gen.self]
    /\ last.request[1].prompt = "p2"

====
